---- MODULE Spec2Model ----
(***************************************************************************)
(* Model of pyprophet/util/compat.py: the pandas/polars compatibility      *)
(* helpers to_polars, to_pandas, ensure_polars, ensure_pandas,             *)
(* compatible_read_csv and compatible_write_csv.                           *)
(*                                                                         *)
(* Python values live on a heap (a sequence of objects, a reference is an  *)
(* index), so that "returns the same object" and "returns a new object"    *)
(* are different outcomes.  The pandas and polars library routines the     *)
(* helpers call (pl.from_pandas, DataFrame.to_pandas, read_csv, to_csv,    *)
(* write_csv) are not part of the module: a call to one of them is logged  *)
(* in `calls` with the arguments it received, a conversion yields a new    *)
(* object whose data is the symbolic term "routine applied to the data of  *)
(* its argument", and the outcome of a reader or writer (a value or an     *)
(* exception) is chosen by the environment.                                *)
(***************************************************************************)
EXTENDS Integers, Sequences, FiniteSets, TLC

VARIABLES heap, options, calls, last

vars == <<heap, options, calls, last>>

\* ---------------------------------------------------------------- bounds
\* the heap holds at most MaxHeap objects: a call that would allocate beyond
\* it is not made
MaxHeap == 5

\* ------------------------------------------------------------ vocabulary
PD == "pandas.DataFrame"
PL == "polars.DataFrame"

Keys == {"sep", "index", "separator", "header"}
Paths == {"a.csv", "b.csv"}

\* the values a caller gives to a key
ValsOf(k) ==
    CASE k = "sep" -> {";", ","}
      [] k = "separator" -> {";", ","}
      [] k = "index" -> {"False"}
      [] k = "header" -> {"True"}

\* every keyword-argument dictionary a caller can build over Keys
OptionMaps ==
    UNION {{f \in [D -> UNION {ValsOf(k) : k \in Keys}] : \A k \in D : f[k] \in ValsOf(k)} :
           D \in SUBSET Keys}

NoKwargs == [k \in {} |-> ";"]

\* outcomes of the library readers and writers
ReadErrors == {"FileNotFoundError", "ParserError"}
WriteErrors == {"PermissionError"}

\* ---------------------------------------------------------- Python values
\* repr of type(df) as the f-string of the TypeError prints it
TypeRepr(t) ==
    CASE t = "str" -> "<class 'str'>"
      [] t = "int" -> "<class 'int'>"
      [] t = PD -> "<class 'pandas.core.frame.DataFrame'>"
      [] t = PL -> "<class 'polars.dataframe.frame.DataFrame'>"

isinstance(h, df, t) == h[df].type = t

Return(r) == [kind |-> "return", ref |-> r, exc |-> "", msg |-> <<>>]

ReturnNone == [kind |-> "return", ref |-> 0, exc |-> "", msg |-> <<>>]

Raise(e, m) == [kind |-> "raise", ref |-> 0, exc |-> e, msg |-> m]

\* raise TypeError(f"Expected pd.DataFrame or pl.DataFrame, got {type(df)}")
UnsupportedType(h, df) ==
    Raise("TypeError",
          <<"Expected pd.DataFrame or pl.DataFrame, got ", TypeRepr(h[df].type)>>)

\* a logged call of a library routine
LibCall(fn, self, path, kw, out) ==
    [fn |-> fn, self |-> self, path |-> path, kwargs |-> kw, outcome |-> out]

\* the result of running one helper: heap after, library calls made, outcome
Result(h, cs, out) == [heap |-> h, calls |-> cs, outcome |-> out]

\* a new object of type t whose data is routine fn applied to src
Alloc(h, t, src, fn) == Append(h, [type |-> t, data |-> Append(src, fn)])

\* ------------------------------------------------------------ conversions
to_polars_no_check(h, df) ==
    IF isinstance(h, df, PD)
    THEN Result(Alloc(h, PL, h[df].data, "pl.from_pandas"),
                <<LibCall("pl.from_pandas", df, "", NoKwargs, Return(Len(h) + 1))>>,
                Return(Len(h) + 1))
    ELSE Result(h, <<>>, Return(df))

to_polars(h, df) ==
    IF isinstance(h, df, PD)
    THEN Result(Alloc(h, PL, h[df].data, "pl.from_pandas"),
                <<LibCall("pl.from_pandas", df, "", NoKwargs, Return(Len(h) + 1))>>,
                Return(Len(h) + 1))
    ELSE IF isinstance(h, df, PL)
    THEN Result(h, <<>>, Return(df))
    ELSE Result(h, <<>>, UnsupportedType(h, df))

to_pandas_copy(h, df) ==
    IF isinstance(h, df, PL)
    THEN Result(Alloc(h, PD, h[df].data, "DataFrame.to_pandas"),
                <<LibCall("DataFrame.to_pandas", df, "", NoKwargs, Return(Len(h) + 1))>>,
                Return(Len(h) + 1))
    ELSE IF isinstance(h, df, PD)
    THEN Result(Alloc(h, PD, h[df].data, "DataFrame.copy"),
                <<LibCall("DataFrame.copy", df, "", NoKwargs, Return(Len(h) + 1))>>,
                Return(Len(h) + 1))
    ELSE Result(h, <<>>, UnsupportedType(h, df))

to_pandas(h, df) ==
    IF isinstance(h, df, PL)
    THEN Result(Alloc(h, PD, h[df].data, "DataFrame.to_pandas"),
                <<LibCall("DataFrame.to_pandas", df, "", NoKwargs, Return(Len(h) + 1))>>,
                Return(Len(h) + 1))
    ELSE IF isinstance(h, df, PD)
    THEN Result(h, <<>>, Return(df))
    ELSE Result(h, <<>>, UnsupportedType(h, df))

ensure_polars_swapped(h, df) == to_pandas(h, df)

ensure_polars(h, df) == to_polars(h, df)

ensure_pandas(h, df) == to_pandas(h, df)

\* ------------------------------------------------------------ dictionaries
\* d[k] = v
DictSet(d, k, v) == [x \in DOMAIN d \cup {k} |-> IF x = k THEN v ELSE d[x]]

\* d.pop(k)
DictPop(d, k) == [x \in DOMAIN d \ {k} |-> d[x]]

\* d.update(e): the entries of e overwrite those of d
DictUpdate(d, e) ==
    [x \in DOMAIN d \cup DOMAIN e |-> IF x \in DOMAIN e THEN e[x] ELSE d[x]]

\* What the caller's own dictionary holds after a call made as f(**options):
\* the callee's kwargs is a new dictionary, so whatever the callee did to its
\* kwargs (kwargsAfter) does not reach the caller's dictionary.
CallerDictAfter_aliased(callerOpts, kwargsAfter) == kwargsAfter

CallerDictAfter(callerOpts, kwargsAfter) == callerOpts

\* -------------------------------------------------------------------- CSV
\* the library reader fn of representation t, with the outcome env
read_csv(h, t, fn, filepath, kwargs, env) ==
    IF env = "ok"
    THEN [heap |-> Alloc(h, t, <<filepath>>, fn), outcome |-> Return(Len(h) + 1)]
    ELSE [heap |-> h, outcome |-> Raise(env, <<filepath>>)]

compatible_read_csv_inverted(h, filepath, use_polars, kwargs, env) ==
    IF ~use_polars
    THEN LET r == read_csv(h, PL, "pl.read_csv", filepath, kwargs, env)
         IN  Result(r.heap, <<LibCall("pl.read_csv", 0, filepath, kwargs, r.outcome)>>,
                    r.outcome)
    ELSE LET r == read_csv(h, PD, "pd.read_csv", filepath, kwargs, env)
         IN  Result(r.heap, <<LibCall("pd.read_csv", 0, filepath, kwargs, r.outcome)>>,
                    r.outcome)

compatible_read_csv(h, filepath, use_polars, kwargs, env) ==
    IF use_polars
    THEN LET r == read_csv(h, PL, "pl.read_csv", filepath, kwargs, env)
         IN  Result(r.heap, <<LibCall("pl.read_csv", 0, filepath, kwargs, r.outcome)>>,
                    r.outcome)
    ELSE LET r == read_csv(h, PD, "pd.read_csv", filepath, kwargs, env)
         IN  Result(r.heap, <<LibCall("pd.read_csv", 0, filepath, kwargs, r.outcome)>>,
                    r.outcome)

\* the outcome of a library writer: None, or the exception env
write_outcome(env) == IF env = "ok" THEN ReturnNone ELSE Raise(env, <<>>)

\* "Map pandas-style kwargs to polars equivalents": the dictionary handed to
\* the polars writer and the callee's kwargs as the pops leave it
map_kwargs_keep_index(kwargs) ==
    LET pk1 == IF "sep" \in DOMAIN kwargs
               THEN DictSet(NoKwargs, "separator", kwargs["sep"])
               ELSE NoKwargs
        kw1 == IF "sep" \in DOMAIN kwargs THEN DictPop(kwargs, "sep") ELSE kwargs
    IN  [polars_kwargs |-> DictUpdate(pk1, kw1), kwargs |-> kw1]

map_kwargs_sep_last(kwargs) ==
    LET kw1 == IF "sep" \in DOMAIN kwargs THEN DictPop(kwargs, "sep") ELSE kwargs
        kw2 == IF "index" \in DOMAIN kw1 THEN DictPop(kw1, "index") ELSE kw1
        pk1 == DictUpdate(NoKwargs, kw2)
        pk2 == IF "sep" \in DOMAIN kwargs
               THEN DictSet(pk1, "separator", kwargs["sep"])
               ELSE pk1
    IN  [polars_kwargs |-> pk2, kwargs |-> kw2]

map_kwargs(kwargs) ==
    LET pk0 == NoKwargs
        pk1 == IF "sep" \in DOMAIN kwargs
               THEN DictSet(pk0, "separator", kwargs["sep"])
               ELSE pk0
        kw1 == IF "sep" \in DOMAIN kwargs THEN DictPop(kwargs, "sep") ELSE kwargs
        kw2 == IF "index" \in DOMAIN kw1 THEN DictPop(kw1, "index") ELSE kw1
        pk2 == DictUpdate(pk1, kw2)
    IN  [polars_kwargs |-> pk2, kwargs |-> kw2]

\* the result of a write: as Result, plus the callee's kwargs at return
WriteResult(h, cs, out, kw) ==
    [heap |-> h, calls |-> cs, outcome |-> out, kwargs |-> kw]

write_polars(h, df, filepath, kwargs, env) ==
    LET m == map_kwargs(kwargs)
        out == write_outcome(env)
    IN  WriteResult(h,
                    <<LibCall("DataFrame.write_csv", df, filepath, m.polars_kwargs, out)>>,
                    out, m.kwargs)

write_pandas_translated(h, df, filepath, kwargs, env) ==
    LET m == map_kwargs(kwargs)
        out == write_outcome(env)
    IN  WriteResult(h,
                    <<LibCall("DataFrame.to_csv", df, filepath, m.polars_kwargs, out)>>,
                    out, m.kwargs)

write_pandas(h, df, filepath, kwargs, env) ==
    LET out == write_outcome(env)
    IN  WriteResult(h, <<LibCall("DataFrame.to_csv", df, filepath, kwargs, out)>>,
                    out, kwargs)

compatible_write_csv(h, df, filepath, kwargs, env) ==
    IF isinstance(h, df, PL)
    THEN write_polars(h, df, filepath, kwargs, env)
    ELSE IF isinstance(h, df, PD)
    THEN write_pandas(h, df, filepath, kwargs, env)
    ELSE WriteResult(h, <<>>, UnsupportedType(h, df), kwargs)

\* ---------------------------------------------------------- state machine
\* the call a caller made last, with the arguments it passed
Call(op, df, filepath, use_polars, kw, out) ==
    [op |-> op, df |-> df, filepath |-> filepath, use_polars |-> use_polars,
     kwargs |-> kw, outcome |-> out]

\* the values the caller holds before any call: a pandas frame, a polars
\* frame, a string and an integer
InitHeap ==
    << [type |-> PD, data |-> <<"t1">>],
       [type |-> PL, data |-> <<"t2">>],
       [type |-> "str", data |-> <<"invalid">>],
       [type |-> "int", data |-> <<"123">>] >>

Init ==
    /\ heap = InitHeap
    /\ options \in OptionMaps
    /\ calls = <<>>
    /\ last = Call("none", 0, "", FALSE, NoKwargs, ReturnNone)

\* a caller runs the conversion f, named op, on the value df
Convert(op, r, df) ==
    /\ Len(r.heap) <= MaxHeap
    /\ heap' = r.heap
    /\ calls' = r.calls
    /\ last' = Call(op, df, "", FALSE, NoKwargs, r.outcome)
    /\ UNCHANGED options

ToPolars == \E df \in DOMAIN heap : Convert("to_polars", to_polars(heap, df), df)

ToPandas == \E df \in DOMAIN heap : Convert("to_pandas", to_pandas(heap, df), df)

EnsurePolars ==
    \E df \in DOMAIN heap : Convert("ensure_polars", ensure_polars(heap, df), df)

EnsurePandas ==
    \E df \in DOMAIN heap : Convert("ensure_pandas", ensure_pandas(heap, df), df)

\* compatible_read_csv(filepath, use_polars, **options)
CompatibleReadCsv ==
    \E filepath \in Paths, use_polars \in BOOLEAN, env \in {"ok"} \cup ReadErrors :
        LET r == compatible_read_csv(heap, filepath, use_polars, options, env)
        IN  /\ Len(r.heap) <= MaxHeap
            /\ heap' = r.heap
            /\ calls' = r.calls
            /\ last' = Call("compatible_read_csv", 0, filepath, use_polars,
                            options, r.outcome)
            /\ options' = CallerDictAfter(options, options)

\* compatible_write_csv(df, filepath, **options)
CompatibleWriteCsv ==
    \E df \in DOMAIN heap, filepath \in Paths, env \in {"ok"} \cup WriteErrors :
        LET r == compatible_write_csv(heap, df, filepath, options, env)
        IN  /\ heap' = r.heap
            /\ calls' = r.calls
            /\ last' = Call("compatible_write_csv", df, filepath, FALSE,
                            options, r.outcome)
            /\ options' = CallerDictAfter(options, r.kwargs)

Next ==
    \/ ToPolars
    \/ ToPandas
    \/ EnsurePolars
    \/ EnsurePandas
    \/ CompatibleReadCsv
    \/ CompatibleWriteCsv

Spec == Init /\ [][Next]_vars

TypeOK ==
    /\ Len(heap) \in 4..MaxHeap
    /\ options \in OptionMaps
    /\ Len(calls) <= 1

\* ----------------------------------------------------------------- claims
Supported(df) == heap[df].type \in {PD, PL}

WriteOn(t) == last.op = "compatible_write_csv" /\ isinstance(heap, last.df, t)

\* C1: to_pandas of a value that is already a pandas DataFrame, and to_polars
\* of a value that is already a polars DataFrame, return the very reference
\* they were given: no library routine is called and no object is created.
C1_IdentityPassthrough ==
    [][ /\ (last'.op = "to_pandas" /\ isinstance(heap, last'.df, PD)) =>
              /\ last'.outcome = Return(last'.df)
              /\ calls' = <<>>
              /\ heap' = heap
        /\ (last'.op = "to_polars" /\ isinstance(heap, last'.df, PL)) =>
              /\ last'.outcome = Return(last'.df)
              /\ calls' = <<>>
              /\ heap' = heap ]_vars

C1_Witness ==
    /\ last.op = "to_pandas"
    /\ isinstance(heap, last.df, PD)
    /\ last.outcome = Return(last.df)
    /\ Len(heap) > Len(InitHeap)

PolarsWriterOnce ==
    /\ Len(calls) = 1
    /\ calls[1].fn = "DataFrame.write_csv"
    /\ calls[1].self = last.df
    /\ calls[1].path = last.filepath

\* C3 as stated: on a polars DataFrame the polars writer is called once with
\* a map that has no 'sep' and no 'index', has the value of a supplied 'sep'
\* under 'separator', and has every other supplied key with its value.
C3_SepValueUnderSeparator ==
    WriteOn(PL) =>
        /\ PolarsWriterOnce
        /\ "sep" \notin DOMAIN calls[1].kwargs
        /\ "index" \notin DOMAIN calls[1].kwargs
        /\ "sep" \in DOMAIN last.kwargs =>
              /\ "separator" \in DOMAIN calls[1].kwargs
              /\ calls[1].kwargs["separator"] = last.kwargs["sep"]
        /\ \A k \in DOMAIN last.kwargs \ {"sep", "index"} :
              /\ k \in DOMAIN calls[1].kwargs
              /\ calls[1].kwargs[k] = last.kwargs[k]

\* C3 amended: as C3, but the value of a supplied 'sep' is under 'separator'
\* only when the caller did not supply 'separator' as well; the translated
\* map has no key besides 'separator' and the supplied keys other than 'sep'
\* and 'index'.
C3_TranslatedMap ==
    WriteOn(PL) =>
        /\ PolarsWriterOnce
        /\ DOMAIN calls[1].kwargs =
               (DOMAIN last.kwargs \ {"sep", "index"}) \cup
               (IF "sep" \in DOMAIN last.kwargs THEN {"separator"} ELSE {})
        /\ ("sep" \in DOMAIN last.kwargs /\ "separator" \notin DOMAIN last.kwargs) =>
              calls[1].kwargs["separator"] = last.kwargs["sep"]
        /\ \A k \in DOMAIN last.kwargs \ {"sep", "index"} :
              calls[1].kwargs[k] = last.kwargs[k]

C3_Witness ==
    /\ WriteOn(PL)
    /\ DOMAIN last.kwargs = {"sep", "index"}
    /\ last.kwargs["sep"] = ";"
    /\ last.kwargs["index"] = "False"
    /\ Len(calls) = 1
    /\ DOMAIN calls[1].kwargs = {"separator"}
    /\ calls[1].kwargs["separator"] = ";"

\* C4: on a pandas DataFrame the pandas writer, and no other, is called with
\* exactly the options the caller supplied.
C4_PandasVerbatim ==
    WriteOn(PD) =>
        /\ Len(calls) = 1
        /\ calls[1].fn = "DataFrame.to_csv"
        /\ calls[1].self = last.df
        /\ calls[1].path = last.filepath
        /\ calls[1].kwargs = last.kwargs

C4_Witness ==
    /\ WriteOn(PD)
    /\ DOMAIN last.kwargs = {"index", "sep"}
    /\ last.kwargs["index"] = "False"
    /\ Len(calls) = 1
    /\ calls[1].kwargs = last.kwargs

\* C5: a call of ensure_polars has the outcome to_polars has on the same
\* argument in the same heap, and ensure_pandas that of to_pandas: the same
\* returned reference or error, the same library calls, the same heap.
C5_EnsureIsAlias ==
    [][ /\ last'.op = "ensure_polars" =>
              /\ last'.outcome = to_polars(heap, last'.df).outcome
              /\ calls' = to_polars(heap, last'.df).calls
              /\ heap' = to_polars(heap, last'.df).heap
        /\ last'.op = "ensure_pandas" =>
              /\ last'.outcome = to_pandas(heap, last'.df).outcome
              /\ calls' = to_pandas(heap, last'.df).calls
              /\ heap' = to_pandas(heap, last'.df).heap ]_vars

C5_Witness ==
    /\ last.op = "ensure_polars"
    /\ isinstance(heap, last.df, PD)
    /\ last.outcome.kind = "return"
    /\ last.outcome.ref = Len(heap)
    /\ heap[Len(heap)].type = PL

\* C8: compatible_read_csv calls one reader, the polars reader when
\* use_polars is true and the pandas reader otherwise, with the path and the
\* options of the caller, and its outcome is the outcome of that reader: the
\* table of that representation, or the error of the reader.
C8_ReadDispatch ==
    last.op = "compatible_read_csv" =>
        /\ Len(calls) = 1
        /\ calls[1].fn = (IF last.use_polars THEN "pl.read_csv" ELSE "pd.read_csv")
        /\ calls[1].path = last.filepath
        /\ calls[1].kwargs = last.kwargs
        /\ last.outcome = calls[1].outcome
        /\ last.outcome.kind = "return" =>
              /\ last.outcome.ref \in DOMAIN heap
              /\ heap[last.outcome.ref].type = (IF last.use_polars THEN PL ELSE PD)

C8_Witness ==
    /\ last.op = "compatible_read_csv"
    /\ last.use_polars
    /\ "sep" \in DOMAIN last.kwargs
    /\ Len(calls) = 1
    /\ "sep" \in DOMAIN calls[1].kwargs
    /\ last.outcome.exc = "FileNotFoundError"

\* C9: on a polars DataFrame with both 'sep' and 'separator' supplied, the
\* polars writer gets one 'separator', with the value the caller gave to
\* 'separator', and the value of 'sep' is discarded.
C9_SeparatorWins ==
    (WriteOn(PL) /\ {"sep", "separator"} \subseteq DOMAIN last.kwargs) =>
        /\ Len(calls) = 1
        /\ "sep" \notin DOMAIN calls[1].kwargs
        /\ "separator" \in DOMAIN calls[1].kwargs
        /\ calls[1].kwargs["separator"] = last.kwargs["separator"]

C9_Witness ==
    /\ WriteOn(PL)
    /\ {"sep", "separator"} \subseteq DOMAIN last.kwargs
    /\ last.kwargs["sep"] = ";"
    /\ last.kwargs["separator"] = ","
    /\ Len(calls) = 1
    /\ calls[1].kwargs["separator"] = ","

\* C10: no call changes the options dictionary of the caller, nor any object
\* that was on the heap before the call.
C10_CallerStateUntouched ==
    [][ /\ options' = options
        /\ \A r \in DOMAIN heap : r \in DOMAIN heap' /\ heap'[r] = heap[r] ]_vars

C10_Witness ==
    /\ WriteOn(PL)
    /\ {"sep", "index"} \subseteq DOMAIN last.kwargs
    /\ Len(calls) = 1
    /\ "sep" \notin DOMAIN calls[1].kwargs
    /\ "index" \notin DOMAIN calls[1].kwargs
    /\ {"sep", "index"} \subseteq DOMAIN options
    /\ Len(heap) > Len(InitHeap)

====
